---- MODULE Spec2Model ----
(***************************************************************************)
(* Model of back/main.py: the GET /data handler (get_data), the memoized   *)
(* dataset generator (get_mock_data under aiocache's @cached()), the       *)
(* three encoders and the conditional-request evaluation.                  *)
(*                                                                         *)
(* Scheduling.  Requests are coroutines on one event loop.  A coroutine    *)
(* can be suspended only at an await that really suspends: the cache read  *)
(* and the cache write of the @cached() decorator (both go through         *)
(* asyncio.wait_for, which hands the operation to the loop).  The body of  *)
(* get_mock_data has no await: while it runs (process pool fan-out         *)
(* included) nothing else runs on the loop.  Lines 132-160 of get_data     *)
(* have no suspending await either and are one step; the response then     *)
(* goes back through the middleware to the wire before the loop runs       *)
(* another coroutine.                                                      *)
(*                                                                         *)
(* Strings.  A header value is a sequence of chunks of characters, a       *)
(* media type being one chunk; upper- and lower-case spellings are         *)
(* different chunks.  Timestamps and ETags are strings built from the      *)
(* clock value and the hash.                                               *)
(***************************************************************************)
EXTENDS Integers, Sequences, FiniteSets, TLC

(* ---------------- bounds of the model ---------------- *)

\* number of connections that can have a request in progress at once
NumClients == 2
\* total number of requests issued in a run
MaxRequests == 3
\* number of records of a dataset (5000 in main.py:89, scaled down)
total_users == 2
\* the wall clock takes the values 0..MaxClock
MaxClock == 1

(* ---------------- program constants ---------------- *)

MSGPACK == "application/x-msgpack"
PROTOBUF == "application/x-protobuf"
JSON == "application/json"
FRESH_CACHE_CONTROL == "private, max-age=30"
NOT_MODIFIED_CACHE_CONTROL == "private, max-age=300"
PROTOBUF_NOT_COMPILED == "Protobuf not compiled. Run: protoc --python_out=. data.proto"
\* fake.random_int(min=18, max=65): the two extremes stand for the range
AgeValues == {18, 65}
\* the cache key @cached() builds for the argument-less get_mock_data
CacheKey == "get_mock_data"
\* @cached() is given no ttl, and the memory cache has no default: None
cached_ttl == <<>>
\* modulus of the model's hash (Python's is 2^61 - 1; scaled down)
HashMod == 65521

Clients == 1..NumClients

VARIABLES
  cache,            \* SimpleMemoryCache._cache: a mapping from keys to values
  now,              \* the wall clock read by datetime.now
  schema_available, \* whether `import data_pb2` succeeds in this deployment
  pc,               \* position of each connection's request coroutine
  data,             \* the local `data` of get_data (<<>> until assigned)
  pool,             \* the process pool: owner, results so far, completion order
  sent,             \* the exchange being completed: request and response
  started,          \* number of requests issued so far
  generations,      \* number of times the body of get_mock_data was entered
  failures,         \* number of generations that raised
  served,           \* datasets returned so far by calls of get_mock_data
  seen,             \* per request: `served` when the request began
  issued,           \* <<ETag, Last-Modified>> pairs carried by 200 responses
  known,            \* per request: `issued` when the request began
  handlers,         \* SimpleMemoryCache._handlers: expiry time of each key
  produced          \* datasets built so far by the body of get_mock_data

vars == <<cache, now, schema_available, pc, data, pool, sent, started,
          generations, failures, served, seen, issued, known, handlers,
          produced>>

(* ---------------- headers: case-sensitive mappings ---------------- *)

NoHeaders == [k \in {} |-> ""]

\* mapping.get(key, default)
Get(h, key, default) == IF key \in DOMAIN h THEN h[key] ELSE default

\* mapping.get(key) == value, where a missing key gives None, equal to no str
GetEquals(h, key, value) == key \in DOMAIN h /\ h[key] = value

\* mapping[key] = value
SetItem(h, key, value) ==
  [k \in DOMAIN h \cup {key} |-> IF k = key THEN value ELSE h[k]]

(* A header value is a sequence of chunks of characters; `sub in s` is the  *)
(* occurrence of the chunks of sub as a contiguous run of s, compared       *)
(* chunk by chunk with exact (case-sensitive) equality, as str.__contains__ *)
Contains(sub, s) ==
  \E i \in 1..(Len(s) - Len(sub) + 1) : SubSeq(s, i, i + Len(sub) - 1) = sub

(* ---------------- the dataset ---------------- *)

\* range(a, b)
Range(a, b) == a..(b - 1)

user_ids == Range(1, total_users + 1)

\* datetime.isoformat() of the clock value t
isoformat(t) == "2025-01-01T00:00:0" \o ToString(t) \o "+00:00"

\* create_fake_user(i): the random fields are represented by age
create_fake_user(i, age) == [id |-> i, age |-> age]

\* variant: the results collected in the order the workers finished
executor_as_completed(results, order) ==
  [k \in 1..Len(order) |-> results[order[k]]]

\* list(executor.map(create_fake_user, user_ids)): results in the order of
\* the inputs, whatever the order in which the workers finished
executor_map(results, order) == [i \in 1..Len(order) |-> results[i]]

\* DataResponse(users=tuple(users), total=total_users, timestamp=...)
DataResponse(users, t) ==
  [users |-> users, total |-> total_users, timestamp |-> isoformat(t)]

(* hash(data): pydantic hashes a frozen model by the tuple of its field     *)
(* values; a tuple hash mixes the hashes of the elements in order.          *)
HashStr(s) == (CHOOSE t \in 0..(MaxClock + 1) : isoformat(t) = s) + 7

HashUser(u) == (u.id * 131 + u.age) % HashMod

RECURSIVE HashUsers(_, _)
HashUsers(us, acc) ==
  IF us = <<>> THEN acc
  ELSE HashUsers(Tail(us), (acc * 31 + HashUser(Head(us))) % HashMod)

\* variant: the fingerprint taken from the timestamp alone
hash_of_timestamp(d) == HashStr(d.timestamp) % HashMod

hash(d) == ((HashUsers(d.users, 17) * 31 + d.total) * 31 + HashStr(d.timestamp)) % HashMod

\* etag = str(hash(data))
ETagOf(d) == ToString(hash(d))

(* ---------------- the encoders ---------------- *)

\* starlette Response(content, status_code, headers, media_type)
Response(content, status_code, headers, media_type) ==
  [is_response |-> TRUE, status_code |-> status_code, content |-> content,
   media_type |-> media_type, headers |-> headers]

\* get_data_json returns the model itself, not a Response
get_data_json(d) ==
  [is_response |-> FALSE, status_code |-> 200, content |-> <<"json", d>>,
   media_type |-> JSON, headers |-> NoHeaders]

get_data_msgpack(d) == Response(<<"msgpack", d>>, 200, NoHeaders, MSGPACK)

\* variant: the failed import is not caught and leaves the handler
get_data_protobuf_unguarded(d, available) ==
  IF ~available
  THEN [is_response |-> FALSE, status_code |-> 500, content |-> <<>>,
        media_type |-> "", headers |-> NoHeaders]
  ELSE Response(<<"protobuf", d>>, 200, NoHeaders, PROTOBUF)

\* import data_pb2 fails: a 500 Response with the remediation message;
\* otherwise the serialized message
get_data_protobuf(d, available) ==
  IF ~available
  THEN Response(<<PROTOBUF_NOT_COMPILED>>, 500, NoHeaders, "")
  ELSE Response(<<"protobuf", d>>, 200, NoHeaders, PROTOBUF)

\* variant: the schema-binary media type tested first
select_encoder_protobuf_first(accept_header) ==
  IF Contains(<<PROTOBUF>>, accept_header) THEN "protobuf"
  ELSE IF Contains(<<MSGPACK>>, accept_header) THEN "msgpack"
  ELSE "json"

\* the if/elif/else on the Accept header
select_encoder(accept_header) ==
  IF Contains(<<MSGPACK>>, accept_header) THEN "msgpack"
  ELSE IF Contains(<<PROTOBUF>>, accept_header) THEN "protobuf"
  ELSE "json"

encode(accept_header, d, available) ==
  CASE select_encoder(accept_header) = "msgpack" -> get_data_msgpack(d)
    [] select_encoder(accept_header) = "protobuf" -> get_data_protobuf(d, available)
    [] OTHER -> get_data_json(d)

(* ---------------- conditional evaluation and the response ---------------- *)

\* variant: both validators required to match
not_modified_both(headers, d) ==
  /\ GetEquals(headers, "if-modified-since", d.timestamp)
  /\ GetEquals(headers, "if-none-match", ETagOf(d))

\* data.timestamp == if_modified_since or if_none_match == etag
not_modified(headers, d) ==
  \/ GetEquals(headers, "if-modified-since", d.timestamp)
  \/ GetEquals(headers, "if-none-match", ETagOf(d))

\* what the server sends when the handler raises
InternalServerError ==
  [status_code |-> 500, content |-> <<"Internal Server Error">>,
   media_type |-> "text/plain", headers |-> NoHeaders, raised |-> TRUE,
   encoder |-> "none", encoded |-> FALSE]

\* the response sent when the handler returns r; the encoder was called
\* (lines 136-146) before the handler got to its return
Sent(r, encoder) ==
  [status_code |-> r.status_code, content |-> r.content,
   media_type |-> r.media_type, headers |-> r.headers, raised |-> FALSE,
   encoder |-> encoder, encoded |-> TRUE]

\* response.headers[...] = ... three times; raises when the object has no
\* attribute `headers`
attach_headers(resp, d) ==
  [resp EXCEPT !.headers =
     SetItem(SetItem(SetItem(@, "Cache-Control", FRESH_CACHE_CONTROL),
                     "Last-Modified", d.timestamp),
             "ETag", ETagOf(d))]

\* lines 132-160 of get_data, given the dataset
get_data(headers, d, available) ==
  LET accept_header == Get(headers, "accept", <<>>)
      resp == encode(accept_header, d, available)
      encoder == select_encoder(accept_header)
  IN  IF not_modified(headers, d)
      THEN Sent(Response(<<>>, 304,
                         [k \in {"Cache-Control"} |-> NOT_MODIFIED_CACHE_CONTROL],
                         ""), encoder)
      ELSE IF ~resp.is_response
      THEN [InternalServerError EXCEPT !.encoder = encoder, !.encoded = TRUE]
      ELSE Sent(attach_headers(resp, d), encoder)

(* ---------------- inputs ---------------- *)

AcceptValues ==
  { <<>>, <<MSGPACK>>, <<PROTOBUF>>, <<PROTOBUF, MSGPACK>>, <<JSON, MSGPACK>>,
    <<JSON, PROTOBUF>>, <<"APPLICATION/X-MSGPACK">>, <<"Application/X-Protobuf">> }

\* validators no response ever carried
StaleETag == "W/stale"
StaleDate == "1999-12-31T23:59:59+00:00"

\* the header sets a client may send: any Accept (or none), and validators
\* taken from the 200 responses `validators` sent before, or stale, or none
RequestHeaders(validators) ==
  LET accepts == {NoHeaders} \cup {[k \in {"accept"} |-> a] : a \in AcceptValues}
      inms == {NoHeaders} \cup
              {[k \in {"if-none-match"} |-> e] :
                 e \in {StaleETag} \cup {v[1] : v \in validators}}
      imss == {NoHeaders} \cup
              {[k \in {"if-modified-since"} |-> t] :
                 t \in {StaleDate} \cup {v[2] : v \in validators}}
  IN  {a @@ b @@ c : a \in accepts, b \in inms, c \in imss}

\* no generation is running
NoPool == [owner |-> 0, results |-> <<>>, order |-> <<>>]

\* one completed exchange
Exchange(r, headers, d, resp) ==
  [client |-> r, request |-> headers, data |-> d, response |-> resp,
   seen |-> seen[r], known |-> known[r]]

(* ---------------- the state machine ---------------- *)

Init ==
  /\ cache = [k \in {} |-> <<>>]
  /\ now = 0
  /\ schema_available \in BOOLEAN
  /\ pc = [r \in Clients |-> "idle"]
  /\ data = [r \in Clients |-> <<>>]
  /\ pool = NoPool
  /\ sent = <<>>
  /\ started = 0
  /\ generations = 0
  /\ failures = 0
  /\ served = {}
  /\ seen = [r \in Clients |-> {}]
  /\ issued = {}
  /\ known = [r \in Clients |-> {}]
  /\ handlers = [k \in {} |-> 0]
  /\ produced = {}

\* the loop runs one coroutine at a time: the body of get_mock_data holds it,
\* and so does the return of a response through the middleware to the wire
LoopFree == pool.owner = 0 /\ sent = <<>>

\* a request arrives: get_data up to the await of the decorator's cache read
StartRequest(r) ==
  /\ LoopFree
  /\ pc[r] = "idle"
  /\ started < MaxRequests
  /\ pc' = [pc EXCEPT ![r] = "get_from_cache"]
  /\ started' = started + 1
  /\ seen' = [seen EXCEPT ![r] = served]
  /\ known' = [known EXCEPT ![r] = issued]
  /\ UNCHANGED <<cache, now, schema_available, data, pool, sent, generations,
                 failures, served, issued, handlers, produced>>

\* @cached(): value = await self.get_from_cache(key); a value is returned,
\* None sends the caller on to the decorated function
CacheGet(r) ==
  /\ LoopFree
  /\ pc[r] = "get_from_cache"
  /\ IF CacheKey \in DOMAIN cache
     THEN /\ data' = [data EXCEPT ![r] = <<cache[CacheKey]>>]
          /\ pc' = [pc EXCEPT ![r] = "respond"]
          /\ served' = served \cup {cache[CacheKey]}
     ELSE /\ pc' = [pc EXCEPT ![r] = "miss"]
          /\ UNCHANGED <<data, served, produced>>
  /\ UNCHANGED <<cache, now, schema_available, pool, sent, started,
                 generations, failures, seen, issued, known, handlers,
                 produced>>

\* variant: the body is entered under a ticket that is never given back
SubmitWorkers_ticket(r) ==
  /\ LoopFree
  /\ pc[r] = "miss"
  /\ generations = 0
  /\ pc' = [pc EXCEPT ![r] = "pool"]
  /\ pool' = [owner |-> r, results |-> [i \in {} |-> 0], order |-> <<>>]
  /\ generations' = generations + 1
  /\ UNCHANGED <<cache, now, schema_available, data, sent, started, failures,
                 served, seen, issued, known, handlers, produced>>

\* result = await f(): the body of get_mock_data starts and submits one task
\* per user id to the process pool
SubmitWorkers(r) ==
  /\ LoopFree
  /\ pc[r] = "miss"
  /\ pc' = [pc EXCEPT ![r] = "pool"]
  /\ pool' = [owner |-> r, results |-> [i \in {} |-> 0], order |-> <<>>]
  /\ generations' = generations + 1
  /\ UNCHANGED <<cache, now, schema_available, data, sent, started, failures,
                 served, seen, issued, known, handlers, produced>>

\* one worker process finishes create_fake_user(i)
WorkerFinish(r, i) ==
  /\ pc[r] = "pool"
  /\ pool.owner = r
  /\ i \in user_ids
  /\ i \notin DOMAIN pool.results
  /\ \E age \in AgeValues :
       pool' = [pool EXCEPT
                  !.results = [j \in DOMAIN pool.results \cup {i} |->
                                 IF j = i THEN create_fake_user(i, age)
                                 ELSE pool.results[j]],
                  !.order = Append(@, i)]
  /\ UNCHANGED <<cache, now, schema_available, pc, data, sent, started,
                 generations, failures, served, seen, issued, known,
                 handlers, produced>>

\* all workers are done: the body reads the clock (which has not gone back
\* since it was last read), returns the DataResponse, and the decorator goes
\* on to await the cache write
GenReturn(r) ==
  /\ pc[r] = "pool"
  /\ pool.owner = r
  /\ DOMAIN pool.results = user_ids
  /\ \E t \in now..MaxClock :
       /\ now' = t
       /\ data' = [data EXCEPT ![r] =
                     <<DataResponse(executor_map(pool.results, pool.order), t)>>]
       /\ produced' = produced \cup
                        {DataResponse(executor_map(pool.results, pool.order), t)}
  /\ pc' = [pc EXCEPT ![r] = "set_in_cache"]
  /\ pool' = NoPool
  /\ UNCHANGED <<cache, schema_available, sent, started, generations,
                 failures, served, seen, issued, known, handlers>>

\* variant: a failed generation drops the cached entry
GenFail_drops_entry(r) ==
  /\ pc[r] = "pool"
  /\ pool.owner = r
  /\ DOMAIN pool.results # user_ids
  /\ pc' = [pc EXCEPT ![r] = "done"]
  /\ pool' = NoPool
  /\ failures' = failures + 1
  /\ cache' = [k \in {} |-> <<>>]
  /\ sent' = <<[client |-> r, request |-> [k \in {} |-> ""], data |-> <<>>,
               response |-> InternalServerError, seen |-> seen[r],
               known |-> known[r]]>>
  /\ UNCHANGED <<now, schema_available, data, started, generations, served,
                 seen, issued, known, handlers, produced>>

\* a worker raises: the exception leaves get_mock_data, the decorator and
\* get_data, nothing is written to the cache; the server answers 500
GenFail(r) ==
  /\ pc[r] = "pool"
  /\ pool.owner = r
  /\ DOMAIN pool.results # user_ids
  /\ pc' = [pc EXCEPT ![r] = "done"]
  /\ pool' = NoPool
  /\ failures' = failures + 1
  /\ sent' = <<Exchange(r, NoHeaders, <<>>, InternalServerError)>>
  /\ UNCHANGED <<cache, now, schema_available, data, started, generations,
                 served, seen, issued, known, handlers, produced>>

\* variant: an existing entry is updated in place, one field at a time
CacheSet_fieldwise(r) ==
  /\ LoopFree
  /\ pc[r] = "set_in_cache"
  /\ cache' = IF CacheKey \in DOMAIN cache
              THEN SetItem(cache, CacheKey,
                           [cache[CacheKey] EXCEPT !.users = data[r][1].users])
              ELSE SetItem(cache, CacheKey, data[r][1])
  /\ served' = served \cup {data[r][1]}
  /\ pc' = [pc EXCEPT ![r] = "respond"]
  /\ UNCHANGED <<now, schema_available, data, pool, sent, started,
                 generations, failures, seen, issued, known, handlers,
                 produced>>

\* await self.set_in_cache(key, result), then return result; the memory
\* cache registers an expiry for the key only when it is given a ttl (the
\* expiry callback, which deletes the key, is never scheduled without one)
CacheSet(r) ==
  /\ LoopFree
  /\ pc[r] = "set_in_cache"
  /\ cache' = SetItem(cache, CacheKey, data[r][1])
  /\ handlers' = IF cached_ttl = <<>> THEN handlers
                 ELSE SetItem(handlers, CacheKey, now + cached_ttl[1])
  /\ served' = served \cup {data[r][1]}
  /\ pc' = [pc EXCEPT ![r] = "respond"]
  /\ UNCHANGED <<now, schema_available, data, pool, sent, started,
                 generations, failures, seen, issued, known, produced>>

\* variant: an error response invalidates the cached entry
Respond_invalidates(r) ==
  /\ LoopFree
  /\ pc[r] = "respond"
  /\ \E h \in RequestHeaders(known[r]) :
       LET out == get_data(h, data[r][1], schema_available)
       IN  /\ sent' = <<Exchange(r, h, data[r], out)>>
           /\ issued' = IF out.status_code = 200
                        THEN issued \cup {<<out.headers["ETag"],
                                            out.headers["Last-Modified"]>>}
                        ELSE issued
           /\ cache' = IF out.status_code = 500 THEN [k \in {} |-> <<>>]
                       ELSE cache
  /\ pc' = [pc EXCEPT ![r] = "done"]
  /\ UNCHANGED <<now, schema_available, data, pool, started, generations,
                 failures, served, seen, known, handlers, produced>>

\* lines 132-160: etag, encoding, conditional check, headers, return; the
\* request's headers are an input, drawn here where they are used
Respond(r) ==
  /\ LoopFree
  /\ pc[r] = "respond"
  /\ \E h \in RequestHeaders(known[r]) :
       LET out == get_data(h, data[r][1], schema_available)
       IN  /\ sent' = <<Exchange(r, h, data[r], out)>>
           /\ issued' = IF out.status_code = 200
                        THEN issued \cup {<<out.headers["ETag"],
                                            out.headers["Last-Modified"]>>}
                        ELSE issued
  /\ pc' = [pc EXCEPT ![r] = "done"]
  /\ UNCHANGED <<cache, now, schema_available, data, pool, started,
                 generations, failures, served, seen, known, handlers,
                 produced>>

\* the response has left: the connection is free for its next request
Deliver(r) ==
  /\ pc[r] = "done"
  /\ pc' = [pc EXCEPT ![r] = "idle"]
  /\ sent' = <<>>
  /\ data' = [data EXCEPT ![r] = <<>>]
  /\ seen' = [seen EXCEPT ![r] = {}]
  /\ known' = [known EXCEPT ![r] = {}]
  /\ UNCHANGED <<cache, now, schema_available, pool, started, generations,
                 failures, served, issued, handlers, produced>>

Next ==
  \/ \E r \in Clients : StartRequest(r)
  \/ \E r \in Clients : CacheGet(r)
  \/ \E r \in Clients : SubmitWorkers(r)
  \/ \E r \in Clients : \E i \in user_ids : WorkerFinish(r, i)
  \/ \E r \in Clients : GenReturn(r)
  \/ \E r \in Clients : GenFail(r)
  \/ \E r \in Clients : CacheSet(r)
  \/ \E r \in Clients : Respond(r)
  \/ \E r \in Clients : Deliver(r)

Spec == Init /\ [][Next]_vars

\* the requests of the runs in which every request is followed to its
\* response: Accept absent or msgpack, If-None-Match absent or an ETag
\* received before, no If-Modified-Since
LiveRequest(h) ==
  /\ "if-modified-since" \notin DOMAIN h
  /\ "accept" \in DOMAIN h => h["accept"] = <<MSGPACK>>
  /\ "if-none-match" \in DOMAIN h => h["if-none-match"] # StaleETag

\* a step of the request of connection r
LiveStep(r) ==
  \/ StartRequest(r)
  \/ CacheGet(r)
  \/ SubmitWorkers(r)
  \/ \E i \in user_ids : WorkerFinish(r, i)
  \/ GenReturn(r)
  \/ GenFail(r)
  \/ CacheSet(r)
  \/ Respond(r) /\ LiveRequest(sent'[1].request)
  \/ Deliver(r)

\* a step that takes the request of connection r forward
Progress(r) ==
  \/ CacheGet(r)
  \/ SubmitWorkers(r)
  \/ \E i \in user_ids : WorkerFinish(r, i)
  \/ GenReturn(r)
  \/ CacheSet(r)
  \/ Respond(r) /\ LiveRequest(sent'[1].request)
  \/ Deliver(r)

LiveNext == \E r \in Clients : LiveStep(r)

\* the loop runs every coroutine that is ready and the workers of the pool
\* run to their end: the steps of each request are weakly fair
FairSpec ==
  Init /\ [][LiveNext]_vars /\ \A r \in Clients : WF_vars(Progress(r))

(* ---------------- properties ---------------- *)

\* the dataset values a request or the cache holds
Held == {data[r][1] : r \in {q \in Clients : data[q] # <<>>}}
          \cup {cache[k] : k \in DOMAIN cache}

\* the exchange being completed is one in which get_mock_data returned
Answered == sent # <<>> /\ sent[1].data # <<>>

IfNoneMatchIs(h, e) == "if-none-match" \in DOMAIN h /\ h["if-none-match"] = e
IfModifiedSinceIs(h, t) ==
  "if-modified-since" \in DOMAIN h /\ h["if-modified-since"] = t

\* the chunks of an Accept header, absent counting as empty
AcceptOf(h) == IF "accept" \in DOMAIN h THEN h["accept"] ELSE <<>>
Mentions(a, type) == \E i \in 1..Len(a) : a[i] = type

\* the encoder the stated precedence gives for an Accept value
Precedence(a) ==
  IF Mentions(a, MSGPACK) THEN "msgpack"
  ELSE IF Mentions(a, PROTOBUF) THEN "protobuf"
  ELSE "json"

\* C1: single-flight: of the generations started, at most one does not
\* fail (the cache never expires, so one success serves every caller), and
\* all callers of get_mock_data are returned the same dataset.
C1_SingleFlight ==
  /\ generations - failures <= 1
  /\ Cardinality(served) <= 1

\* C2: an exchange in which no validator matches ends in 200 with a
\* non-empty body and the headers ETag, Last-Modified and
\* Cache-Control: private, max-age=30, whatever the Accept header.
C2_FullResponse ==
  (/\ Answered
   /\ ~IfNoneMatchIs(sent[1].request, ETagOf(sent[1].data[1]))
   /\ ~IfModifiedSinceIs(sent[1].request, sent[1].data[1].timestamp))
  => /\ sent[1].response.status_code = 200
     /\ sent[1].response.content # <<>>
     /\ DOMAIN sent[1].response.headers =
          {"ETag", "Last-Modified", "Cache-Control"}
     /\ sent[1].response.headers["ETag"] = ETagOf(sent[1].data[1])
     /\ sent[1].response.headers["Last-Modified"] = sent[1].data[1].timestamp
     /\ sent[1].response.headers["Cache-Control"] = FRESH_CACHE_CONTROL

\* C3: an exchange in which If-None-Match equals the ETag or
\* If-Modified-Since equals the timestamp ends in 304 with an empty body and
\* Cache-Control: private, max-age=300, whatever the Accept header and whether
\* or not the schema module is available.
C3_NotModified ==
  (/\ Answered
   /\ \/ IfNoneMatchIs(sent[1].request, ETagOf(sent[1].data[1]))
      \/ IfModifiedSinceIs(sent[1].request, sent[1].data[1].timestamp))
  => /\ sent[1].response.status_code = 304
     /\ sent[1].response.content = <<>>
     /\ ~sent[1].response.raised
     /\ "Cache-Control" \in DOMAIN sent[1].response.headers
     /\ sent[1].response.headers["Cache-Control"] = NOT_MODIFIED_CACHE_CONTROL

\* a 304 for the schema-binary media type without the schema module, by
\* If-Modified-Since alone while If-None-Match does not match
C3_Witness ==
  /\ Answered
  /\ ~schema_available
  /\ Mentions(AcceptOf(sent[1].request), PROTOBUF)
  /\ ~Mentions(AcceptOf(sent[1].request), MSGPACK)
  /\ IfNoneMatchIs(sent[1].request, StaleETag)
  /\ IfModifiedSinceIs(sent[1].request, sent[1].data[1].timestamp)
  /\ sent[1].response.status_code = 304

\* C4: a request that began after a 200 response carried ETag E and that
\* sends If-None-Match: E ends in 304 with an empty body.
C4_RoundTrip ==
  (/\ Answered
   /\ "if-none-match" \in DOMAIN sent[1].request
   /\ sent[1].request["if-none-match"] \in {v[1] : v \in sent[1].known})
  => /\ sent[1].response.status_code = 304
     /\ sent[1].response.content = <<>>

\* C5: a call of get_mock_data that began after another call had returned
\* returns the dataset that call returned and does not enter the generator.
C5_Idempotent ==
  \A r \in Clients :
    /\ seen[r] # {} => pc[r] \notin {"miss", "pool", "set_in_cache"}
    /\ pc[r] = "respond" => \A d \in seen[r] : data[r] = <<d>>

\* C6: at most one generation is in flight: no two callers have entered the
\* generator without their result being in the cache yet.
C6_OneInFlight ==
  Cardinality({r \in Clients : pc[r] \in {"pool", "set_in_cache"}}) <= 1

\* C7: the encoder chosen is msgpack when the Accept header has the msgpack
\* media type, whatever else it has; otherwise protobuf when it has the
\* protobuf media type; otherwise json, as for an absent or empty header.
\* A 200 response carries the chosen encoder's media type.
C7_Precedence ==
  Answered =>
    /\ sent[1].response.encoder = Precedence(AcceptOf(sent[1].request))
    /\ sent[1].response.status_code = 200 =>
         /\ sent[1].response.content[1] = sent[1].response.encoder
         /\ sent[1].response.media_type =
              (IF Mentions(AcceptOf(sent[1].request), MSGPACK)
               THEN MSGPACK ELSE PROTOBUF)

\* a 200 msgpack response to an Accept header naming protobuf first
C7_Witness ==
  /\ Answered
  /\ AcceptOf(sent[1].request) = <<PROTOBUF, MSGPACK>>
  /\ sent[1].response.status_code = 200
  /\ sent[1].response.media_type = MSGPACK

\* the lower-case spelling of a chunk, and of a header value
LowerChunk(c) ==
  CASE c = "APPLICATION/X-MSGPACK" -> MSGPACK
    [] c = "Application/X-Protobuf" -> PROTOBUF
    [] OTHER -> c

Lower(s) == [i \in 1..Len(s) |-> LowerChunk(s[i])]

\* C8: the media-type match ignores case: the encoder chosen for an Accept
\* value is the one chosen for its lower-case spelling.
C8_CaseInsensitive ==
  Answered =>
    sent[1].response.encoder = Precedence(Lower(AcceptOf(sent[1].request)))

\* the pool has every result: the generator is about to build its dataset
PoolComplete == pool.owner # 0 /\ DOMAIN pool.results = user_ids

\* the dataset the generator builds from a complete pool at clock value t
Built(t) == DataResponse(executor_map(pool.results, pool.order), t)

\* C9: every dataset the generator builds or has returned has total = number
\* of records and record ids 1, 2, ..., total in this order, whatever the
\* order in which the workers finished.
C9_Records ==
  \A d \in Held \cup (IF PoolComplete THEN {Built(now)} ELSE {}) :
    /\ d.total = Len(d.users)
    /\ \A i \in 1..Len(d.users) : d.users[i].id = i

\* the workers have all finished, the last user's first, and the dataset
\* built from them starts with user 1
C9_Witness ==
  /\ PoolComplete
  /\ total_users > 1
  /\ pool.order[1] = total_users
  /\ Built(now).users[1].id = 1
  /\ Built(now).total = total_users

\* C10: the step in which a generation fails answers that caller with the
\* server's 500, leaves the cache and the served datasets as they were and
\* the caller without a dataset to store; and a caller that finds no entry
\* goes on to generate.
C10_FailureIsolated ==
  [][/\ (\E r \in Clients : pc[r] = "pool" /\ pc'[r] = "done")
        => /\ cache' = cache
           /\ served' = served
           /\ sent' # <<>>
           /\ sent'[1].data = <<>>
           /\ sent'[1].response.status_code = 500
           /\ sent'[1].response.raised
           /\ \A r \in Clients : pc'[r] = "done" => data'[r] = <<>>
     /\ \A r \in Clients :
          (pc[r] = "get_from_cache" /\ pc'[r] # pc[r] /\ DOMAIN cache = {})
            => pc'[r] = "miss"]_vars

\* a generation failed while the cache held a dataset, and still holds it
C10_Witness ==
  /\ sent # <<>>
  /\ sent[1].data = <<>>
  /\ sent[1].response.raised
  /\ CacheKey \in DOMAIN cache
  /\ cache[CacheKey].total = total_users

\* C11: every entry of the cache is stored with a time-to-live: it has an
\* expiry time, after which a call regenerates instead of returning it.
C11_Expires == \A k \in DOMAIN cache : k \in DOMAIN handlers

\* C12: the cache slot is empty or holds one dataset exactly as one
\* generation built it, and so is every dataset a request holds or is
\* answered from: none mixes users, total or timestamp of two generations.
C12_AtomicPublication ==
  /\ Cardinality(DOMAIN cache) <= 1
  /\ \A d \in Held : d \in produced
  /\ sent # <<>> => \A i \in 1..Len(sent[1].data) : sent[1].data[i] \in produced

\* a later generation has overwritten the slot while another request still
\* holds the dataset of the earlier one
C12_Witness ==
  /\ CacheKey \in DOMAIN cache
  /\ Cardinality(produced) > 1
  /\ \E r \in Clients :
       /\ pc[r] = "respond"
       /\ data[r] # <<cache[CacheKey]>>
       /\ data[r][1] \in produced

C14_NoEncodingOn304 ==
  (Answered /\ sent[1].response.status_code = 304)
    => ~sent[1].response.encoded

\* C15: when the Accept header selects protobuf, the schema module is not
\* available and no validator matches, the exchange ends in a 500 whose body
\* is the remediation message, and the handler has not raised.
C15_SchemaUnavailable ==
  (/\ Answered
   /\ ~schema_available
   /\ Precedence(AcceptOf(sent[1].request)) = "protobuf"
   /\ ~IfNoneMatchIs(sent[1].request, ETagOf(sent[1].data[1]))
   /\ ~IfModifiedSinceIs(sent[1].request, sent[1].data[1].timestamp))
  => /\ sent[1].response.status_code = 500
     /\ sent[1].response.content = <<PROTOBUF_NOT_COMPILED>>
     /\ sent[1].response.content # <<>>
     /\ ~sent[1].response.raised

\* such an exchange, with a stale If-None-Match
C15_Witness ==
  /\ Answered
  /\ ~schema_available
  /\ AcceptOf(sent[1].request) = <<JSON, PROTOBUF>>
  /\ IfNoneMatchIs(sent[1].request, StaleETag)
  /\ sent[1].response.status_code = 500
  /\ ~sent[1].response.raised

\* C16: the steps of a request that is served from the cache (the read that
\* finds the entry, the handling of the dataset whatever the headers and
\* the outcome, the delivery) leave the cache as it was.
C16_Frame ==
  [][(\E r \in Clients :
        \/ pc[r] = "get_from_cache" /\ pc'[r] = "respond"
        \/ pc[r] = "respond" /\ pc'[r] = "done"
        \/ pc[r] = "done" /\ pc'[r] = "idle")
     => cache' = cache /\ handlers' = handlers]_vars

\* a request served from the cache has failed on the protobuf path and the
\* cache still holds the dataset it was answered from
C16_Witness ==
  /\ Answered
  /\ sent[1].seen # {}
  /\ sent[1].response.status_code = 500
  /\ sent[1].response.encoder = "protobuf"
  /\ CacheKey \in DOMAIN cache
  /\ cache[CacheKey] = sent[1].data[1]

\* C17: a 500 response carries no ETag, Last-Modified or Cache-Control
\* header, and a 304 response no ETag and no Last-Modified.
C17_HeadersOnlyOn200 ==
  sent # <<>> =>
    /\ sent[1].response.status_code = 500 =>
         DOMAIN sent[1].response.headers
           \cap {"ETag", "Last-Modified", "Cache-Control"} = {}
    /\ sent[1].response.status_code = 304 =>
         DOMAIN sent[1].response.headers \cap {"ETag", "Last-Modified"} = {}

====
